---- MODULE Spec2Model ----
(***************************************************************************)
(* pixcat: grid layout (grid.py), image resize and id allocation           *)
(* (image.py) and the kitty graphics protocol codec (terminal.py).         *)
(*                                                                         *)
(* Sizes are pixel counts (HSize/VSize default to px).  The size module    *)
(* and the data module are not part of the sources at hand; what is used   *)
(* of them is modelled after the specification text.                       *)
(***************************************************************************)
EXTENDS Integers, Sequences, FiniteSets, TLC

VARIABLES
    axis,       \* Axis under test: [data, wrap_around]
    axcall,     \* last Axis.__getitem__ call: [index, raised, pos, cell]
    grid,       \* Grid fields
    term,       \* terminal metrics: [width, cell_px_width, cell_px_height]
    cpr,        \* frame of the cells_per_row property
    prevcap,    \* <<cells_per_row>> of the grid before its columns grew
    contents,   \* input sequence of Grid.show
    show,       \* frame of Grid.show
    rendered,   \* log of the _show_content calls: <<[k, col, row, w, h]>>
    images,     \* Image instances: instance number -> [w, h, id, cache, src]
    used_ids,   \* Image.used_ids (class attribute)
    rq,         \* arguments of the resize call being made
    rcall,      \* <<outcome of that call>>, once it was made
    scaled,     \* log of the PIL resize calls that produced an Image
    tty,        \* PixTerminal.run_code frame, SIGALRM timer and stdin
    gc,         \* a PixTerminal.get_code call: arguments and result
    sc          \* a Grid._show_content call: row, content height, result

vars == <<axis, axcall, grid, term, cpr, prevcap, contents, show, rendered,
          images, used_ids, rq, rcall, scaled, tty, gc, sc>>

notCpr   == <<axis, axcall, grid, term, prevcap, contents, show, rendered,
              images, used_ids, rq, rcall, scaled, tty, gc, sc>>

None == "None"

\* An Optional[int] field is only ever tested for truth in grid.py, where
\* None and 0 behave alike: 0 stands for both.
Truthy(x) == x # 0

(***************************************************************************)
(* Bounds of the model                                                     *)
(***************************************************************************)
MaxAxisLen == 2     \* longest Axis.data
MaxCellSize == 3    \* largest Column/Row size, in cells
MaxIndex == 4       \* largest |index| handed to Axis.__getitem__
MaxTermWidth == 4   \* widest terminal, in cells

(***************************************************************************)
(* Python helpers                                                          *)
(***************************************************************************)
Max(a, b) == IF a >= b THEN a ELSE b
Min(a, b) == IF a <= b THEN a ELSE b

\* math.floor(a / b) for b > 0
FloorDiv(a, b) == a \div b

\* math.ceil(a / b) for b > 0
CeilDiv(a, b) == -((-a) \div b)

(***************************************************************************)
(* size module: a Size is a pixel count; .cells converts with the          *)
(* terminal's cell size.                                                   *)
(***************************************************************************)
CellPx == 2         \* TERM.cell_px_width and TERM.cell_px_height

SizePx(size) == size

SizeCells(size) == size \div CellPx

\* HSize(cells=n) / VSize(cells=n)
SizeOfCells(n) == n * CellPx

\* TermHSize(): the terminal's width
TermHSize == SizeOfCells(term.width)

(***************************************************************************)
(* grid.py: Column, Row, Axis                                              *)
(***************************************************************************)
Aligns == {"left", "center", "right"}

Cell(size, align) == [size |-> size, align |-> align]

\* An Axis entry is a Cell or a callable (axis, index) -> Cell.  The
\* callables of the model alternate between two cells on the index parity.
StaticEntry(c) == [callable |-> FALSE, cell |-> c, alt |-> c]
GeneratedEntry(c, d) == [callable |-> TRUE, cell |-> c, alt |-> d]

\* item(self, index) if callable(item) else item
EntryCell(item, index) ==
    IF item.callable
    THEN (IF index % 2 = 0 THEN item.cell ELSE item.alt)
    ELSE item.cell

\* list.__getitem__ accepts -len .. len-1
ListInRange(data, index) == index >= -Len(data) /\ index < Len(data)

\* 0-based position list.__getitem__ reads for an accepted index
ListPos(data, index) == IF index >= 0 THEN index ELSE Len(data) + index

\* 0-based position read by the except branch; -1 is the last element
FallbackPos_FirstEntry(ax, index) ==
    IF ax.wrap_around THEN index % Len(ax.data) ELSE 0

FallbackPos(ax, index) ==
    IF ax.wrap_around THEN index % Len(ax.data) ELSE Len(ax.data) - 1

\* Axis.__getitem__: [raised, pos, cell]
Axis_getitem(ax, index) ==
    IF ListInRange(ax.data, index)
    THEN [raised |-> FALSE, pos |-> ListPos(ax.data, index),
          cell |-> EntryCell(ax.data[ListPos(ax.data, index) + 1], index)]
    ELSE IF Len(ax.data) = 0
    THEN [raised |-> TRUE, pos |-> -1, cell |-> Cell(0, None)]
    ELSE [raised |-> FALSE, pos |-> FallbackPos(ax, index),
          cell |-> EntryCell(ax.data[FallbackPos(ax, index) + 1], index)]

(***************************************************************************)
(* grid.py: Grid.cells_per_row                                             *)
(***************************************************************************)
MaxLoop == 6        \* cap on the column index of the fitting loop

\* to_col = self.cols[index].size
to_col(index) == Axis_getitem(grid.cols, index).cell.size

\* at_col + to_col > term_w - TERM.cell_px_width
LoopBreaks(index, at_col) ==
    at_col + to_col(index) > TermHSize - term.cell_px_width

\* the three assignments that end one pass of the loop
LoopAdvance_CountsWidth(f, width) ==
    [f EXCEPT !.at_col = @ + width, !.can_fit = @ + width, !.index = @ + 1]

LoopAdvance(f, width) ==
    [f EXCEPT !.at_col = @ + width, !.can_fit = @ + 1, !.index = @ + 1]

\* the return statements of cells_per_row
Parity_NoFloor(can_fit, force_even, force_odd) ==
    IF force_even THEN (can_fit \div 2) * 2
    ELSE IF force_odd
    THEN (IF can_fit % 2 = 0 THEN can_fit - 1 ELSE can_fit)
    ELSE can_fit

Parity_OddFirst(can_fit, force_even, force_odd) ==
    IF force_odd
    THEN Max(1, IF can_fit % 2 = 0 THEN can_fit - 1 ELSE can_fit)
    ELSE IF force_even THEN Max(2, FloorDiv(can_fit, 2) * 2)
    ELSE Max(1, can_fit)

Parity(can_fit, force_even, force_odd) ==
    IF force_even THEN Max(2, FloorDiv(can_fit, 2) * 2)
    ELSE IF force_odd
    THEN Max(1, IF can_fit % 2 = 0 THEN can_fit - 1 ELSE can_fit)
    ELSE Max(1, can_fit)

CprIdle == [pc |-> "idle", index |-> 0, at_col |-> 0, can_fit |-> 0,
            ret |-> 0]

CprCall == [CprIdle EXCEPT !.pc = "call"]

\* if self.max_cols: can_fit = self.max_cols
cells_per_row_max_cols ==
    /\ cpr.pc = "call"
    /\ Truthy(grid.max_cols)
    /\ cpr' = [cpr EXCEPT !.pc = "parity", !.can_fit = grid.max_cols]
    /\ UNCHANGED notCpr

\* else: term_w = TermHSize(); index = at_col = can_fit = 0
cells_per_row_fit ==
    /\ cpr.pc = "call"
    /\ ~Truthy(grid.max_cols)
    /\ cpr' = [cpr EXCEPT !.pc = "loop"]
    /\ UNCHANGED notCpr

\* one pass of the while loop that does not break
cells_per_row_loop ==
    /\ cpr.pc = "loop"
    /\ cpr.index < MaxLoop
    /\ ~LoopBreaks(cpr.index, cpr.at_col)
    /\ cpr' = LoopAdvance(cpr, to_col(cpr.index))
    /\ UNCHANGED notCpr

\* the pass of the while loop that breaks
cells_per_row_break ==
    /\ cpr.pc = "loop"
    /\ LoopBreaks(cpr.index, cpr.at_col)
    /\ cpr' = [cpr EXCEPT !.pc = "parity"]
    /\ UNCHANGED notCpr

\* parity forcing and return
cells_per_row_return ==
    /\ cpr.pc = "parity"
    /\ cpr' = [cpr EXCEPT !.pc = "done",
                          !.ret = Parity(cpr.can_fit, grid.force_even,
                                         grid.force_odd)]
    /\ UNCHANGED notCpr

(***************************************************************************)
(* Values of the parts of the state a specification does not exercise      *)
(***************************************************************************)
\* resize(): the defaults of the signature
DefaultArgs == [min_w |-> 1, min_h |-> 1, max_w |-> 0, max_h |-> 0,
                stretch |-> FALSE]

AxisIdle == [data |-> <<>>, wrap_around |-> FALSE]

\* Axis([Column(...)]) / Axis([Row(...)]): one static centred cell
DefaultAxis ==
    [data |-> <<StaticEntry(Cell(SizeOfCells(1), "center"))>>,
     wrap_around |-> FALSE]

\* Grid(): the dataclass defaults
DefaultGrid ==
    [cols |-> DefaultAxis, rows |-> DefaultAxis,
     max_cols |-> 0, max_rows |-> 0,
     force_even |-> FALSE, force_odd |-> FALSE,
     raise_errors |-> FALSE, print_errors |-> TRUE]

DefaultTerm == [width |-> MaxTermWidth, cell_px_width |-> CellPx,
                cell_px_height |-> CellPx]

\* frame of show: k items taken from contents so far; failed: the item
\* just taken was an Image whose resize raised; broke: the loop was left by
\* break; newlines, printed: row newlines and diagnostics written so far
ShowIdle == [pc |-> "idle", k |-> 0, col |-> 0, row |-> 0, exc |-> None,
             failed |-> FALSE, broke |-> FALSE, newlines |-> 0,
             printed |-> 0]

TtyIdle == [pc |-> "idle", alarm |-> FALSE, chars |-> <<>>, exc |-> None,
            action |-> None, id |-> <<>>, stray |-> FALSE, timeout |-> 0,
            out |-> <<>>, from_code |-> <<>>, answer |-> <<>>]

NoCall == [called |-> FALSE, index |-> 0,
           ret |-> [raised |-> FALSE, pos |-> 0, cell |-> Cell(0, None)]]

AxisUnused == axis = AxisIdle /\ axcall = NoCall
GridUnused == grid = DefaultGrid /\ term = DefaultTerm /\ cpr = CprIdle
              /\ prevcap = <<>>
ShowUnused == contents = <<>> /\ show = ShowIdle /\ rendered = <<>>
ImgUnused  == images = <<>> /\ used_ids = {} /\ rq = DefaultArgs
              /\ rcall = <<>> /\ scaled = <<>>
GcIdle == [pc |-> "idle", payload |-> <<>>, controls |-> <<>>, exc |-> None,
           code |-> <<>>]

ScIdle == [pc |-> "idle", row |-> Cell(0, "center"), height |-> 0,
           inner_y |-> 0, cells |-> 0, rest |-> 0, above |-> 0, below |-> 0]

TtyUnused  == tty = TtyIdle /\ gc = GcIdle /\ sc = ScIdle

(***************************************************************************)
(* Axis lookups on their own                                               *)
(***************************************************************************)
SeqsUpTo(S, n) == UNION {[1..m -> S] : m \in 0..n}

CellSizes == {SizeOfCells(n) : n \in 0..MaxCellSize}

\* static cells, and callables that widen odd indexes by one cell
AxisEntries ==
    {StaticEntry(Cell(s, "center")) : s \in CellSizes}
    \cup {GeneratedEntry(Cell(s, "center"), Cell(s + SizeOfCells(1), "center"))
          : s \in CellSizes}

AxisSet == [data : SeqsUpTo(AxisEntries, MaxAxisLen), wrap_around : BOOLEAN]

InitAxis ==
    /\ axis \in AxisSet
    /\ axcall = NoCall
    /\ GridUnused /\ ShowUnused /\ ImgUnused /\ TtyUnused

\* axis[index]
AxisLookup ==
    /\ \E index \in -MaxIndex..MaxIndex :
          axcall' = [called |-> TRUE, index |-> index,
                     ret |-> Axis_getitem(axis, index)]
    /\ UNCHANGED <<axis, grid, term, cpr, prevcap, contents, show, rendered,
                   images, used_ids, rq, rcall, scaled, tty, gc, sc>>

NextAxis == AxisLookup

SpecAxis == InitAxis /\ [][NextAxis]_vars

\* the entry the documented lookup rule selects (0-based)
ExpectedPos(index, n, wrap) ==
    IF index >= 0 /\ index < n THEN index
    ELSE IF index < 0 /\ index >= -n THEN n + index
    ELSE IF wrap THEN index % n
    ELSE n - 1

\* C4: on a non-empty Axis every integer index is answered without raising,
\* by the entry at that index when it is in range (negative indexes counted
\* from the end), else by entry (index mod length) under wrap_around and by
\* the last entry otherwise.
C4_AxisLookupTotal ==
    (axcall.called /\ Len(axis.data) > 0) =>
        /\ ~axcall.ret.raised
        /\ axcall.ret.pos \in 0..(Len(axis.data) - 1)
        /\ axcall.ret.pos =
              ExpectedPos(axcall.index, Len(axis.data), axis.wrap_around)
        /\ axcall.ret.cell =
              EntryCell(axis.data[axcall.ret.pos + 1], axcall.index)

C4_Witness ==
    /\ axcall.called
    /\ Len(axis.data) = 2
    /\ ~axis.wrap_around
    /\ axcall.index = 3
    /\ axcall.ret.pos = 1
    /\ ~axcall.ret.raised

(***************************************************************************)
(* Row capacity on its own: evaluate cells_per_row, grow columns, repeat   *)
(***************************************************************************)
MaxCols == 3        \* largest max_cols

\* columns of every size, and callables that widen odd indexes by one cell
ColEntries ==
    {StaticEntry(Cell(s, "center")) : s \in CellSizes}
    \cup {GeneratedEntry(Cell(SizeOfCells(n), "center"),
                         Cell(SizeOfCells(n + 1), "center")) : n \in 0..1}

ColAxes == [data : SeqsUpTo(ColEntries, MaxAxisLen) \ {<<>>},
            wrap_around : BOOLEAN]

MaxColsSet == {0, -1} \cup 1..MaxCols

\* the columns only matter when max_cols is not set
CapGrids ==
    {[DefaultGrid EXCEPT !.cols = c, !.force_even = fe, !.force_odd = fo] :
        c \in ColAxes, fe \in BOOLEAN, fo \in BOOLEAN}
    \cup {[DefaultGrid EXCEPT !.max_cols = m,
                              !.force_even = fe, !.force_odd = fo] :
        m \in MaxColsSet, fe \in BOOLEAN, fo \in BOOLEAN}

InitCap ==
    /\ grid \in CapGrids
    /\ term \in {[DefaultTerm EXCEPT !.width = w] : w \in 1..MaxTermWidth}
    /\ cpr = CprCall
    /\ prevcap = <<>>
    /\ AxisUnused /\ ShowUnused /\ ImgUnused /\ TtyUnused

\* entry e grown into entry f: same kind, no size smaller
EntryGrown(e, f) ==
    /\ f.callable = e.callable
    /\ f.cell.align = e.cell.align /\ f.alt.align = e.alt.align
    /\ f.cell.size >= e.cell.size
    /\ f.alt.size >= e.alt.size

\* Column.size is assigned larger values between two evaluations
EnlargeCols ==
    /\ cpr.pc = "done"
    /\ \E c \in ColAxes :
          /\ Len(c.data) = Len(grid.cols.data)
          /\ c.wrap_around = grid.cols.wrap_around
          /\ \A i \in 1..Len(c.data) : EntryGrown(grid.cols.data[i], c.data[i])
          /\ c # grid.cols
          /\ grid' = [grid EXCEPT !.cols = c]
    /\ prevcap' = <<cpr.ret>>
    /\ cpr' = CprCall
    /\ UNCHANGED <<axis, axcall, term, contents, show, rendered,
                   images, used_ids, rq, rcall, scaled, tty, gc, sc>>

NextCap ==
    \/ cells_per_row_max_cols
    \/ cells_per_row_fit
    \/ cells_per_row_loop
    \/ cells_per_row_break
    \/ cells_per_row_return
    \/ EnlargeCols

SpecCap == InitCap /\ [][NextCap]_vars

\* every column the loop can still read, from the current index on, has
\* zero width: the entries repeat with a period of at most twice the axis
ZeroWidthForever ==
    \A j \in cpr.index..(cpr.index + 2 * Len(grid.cols.data)) :
        to_col(j) = 0

\* C22: without max_cols the column-fitting loop terminates for every
\* non-empty column axis and terminal width: it is never at a pass that
\* does not break while all the columns still to come have zero width, as
\* at_col would then stay the same for ever and no later pass would break.
C22_LoopTerminates ==
    ~(/\ cpr.pc = "loop"
      /\ ~LoopBreaks(cpr.index, cpr.at_col)
      /\ ZeroWidthForever)

\* C5: whatever the configuration, a returned cells_per_row is at least 1,
\* and at least 2 when force_even is set.
C5_CapacityFloor ==
    cpr.pc = "done" =>
        /\ cpr.ret >= 1
        /\ (grid.force_even => cpr.ret >= 2)

C5_Witness ==
    /\ cpr.pc = "done"
    /\ grid.force_even
    /\ cpr.can_fit <= 0
    /\ cpr.ret = 2

\* C6: with terminal width, max_cols and parity flags fixed, growing column
\* sizes (none shrinking) never increases cells_per_row.
C6_CapacityMonotone ==
    (cpr.pc = "done" /\ prevcap # <<>>) => cpr.ret <= prevcap[1]

C6_Witness ==
    /\ cpr.pc = "done"
    /\ prevcap # <<>>
    /\ ~Truthy(grid.max_cols)
    /\ cpr.ret < prevcap[1]

LargestEvenUpTo(n) == CHOOSE e \in (n - 1)..n : e % 2 = 0
LargestOddUpTo(n) == CHOOSE o \in (n - 1)..n : o % 2 = 1

\* C7: with force_even (force_odd set or not) the capacity is the largest
\* even number not above the fitted count, at least 2; with force_odd alone
\* it is the largest odd number not above the fitted count, at least 1.
C7_ParityRule ==
    cpr.pc = "done" =>
        /\ (grid.force_even =>
               cpr.ret = Max(2, LargestEvenUpTo(cpr.can_fit)))
        /\ ((grid.force_odd /\ ~grid.force_even) =>
               cpr.ret = Max(1, LargestOddUpTo(cpr.can_fit)))

C7_Witness ==
    /\ cpr.pc = "done"
    /\ grid.force_even /\ grid.force_odd
    /\ ~Truthy(grid.max_cols)
    /\ cpr.can_fit = 3
    /\ cpr.ret = 2

(***************************************************************************)
(* image.py: Image._get_id                                                 *)
(***************************************************************************)
MIN_ID == 1         \* data.MIN_ID
MAX_ID == 2         \* data.MAX_ID, a small id space

\* ids random.randint may end on: when the set is full, self.used_ids is
\* rebound to a fresh set on the instance and every id is free again
GetIdChoices(used) ==
    IF Cardinality(used) >= MAX_ID THEN MIN_ID..MAX_ID
    ELSE (MIN_ID..MAX_ID) \ used

\* the class attribute after _get_id returned id: the rebound set belongs
\* to the instance, the class keeps its full set
GetIdUsed(used, id) ==
    IF Cardinality(used) >= MAX_ID THEN used ELSE used \cup {id}

(***************************************************************************)
(* image.py: Image.resize                                                  *)
(***************************************************************************)
\* _negative_col_to_px / _negative_row_to_px
NegativeToPx(num) == IF num >= 0 THEN num ELSE CellPx * (-num)

\* max_w = max_w or img_w
OrDefault(x, default) == IF Truthy(x) THEN x ELSE default

\* math.ceil((a / b) * c) and math.floor((a / b) * c); for the integers of
\* the model the double-precision results are the exact ones
CeilScale(a, b, c) == CeilDiv(a * c, b)
FloorScale(a, b, c) == FloorDiv(a * c, b)

\* w = math.floor((h / img_h) * img_w), given the height
WidthOf(img_w, img_h, h) == [w |-> FloorScale(h, img_h, img_w), h |-> h]

\* h = math.floor((w / img_w) * img_h), given the width
HeightOf(img_w, img_h, w) == [w |-> w, h |-> FloorScale(w, img_w, img_h)]

\* one of the two non-stretch branches: the height is computed first from
\* the width bound bw, capped by max_h, the width follows
HeightFirst(img_w, img_h, bw, max_h) ==
    WidthOf(img_w, img_h, Min(max_h, CeilScale(bw, img_w, img_h)))

\* the other non-stretch branch: the width is computed first
WidthFirst(img_w, img_h, bh, max_w) ==
    HeightOf(img_w, img_h, Min(max_w, CeilScale(bh, img_h, img_w)))

\* the size resize decides on, after the bounds were normalised:
\* [same |-> TRUE] is the "nothing to do" branch
Target(img_w, img_h, min_w, min_h, max_w, max_h, stretch) ==
    IF (img_w < min_w \/ img_h < min_h) /\ img_w < max_w /\ img_h < max_h
    THEN [same |-> FALSE] @@
         (IF stretch THEN [w |-> min_w, h |-> min_h]
          ELSE IF min_w >= min_h
          THEN HeightFirst(img_w, img_h, min_w, max_h)
          ELSE WidthFirst(img_w, img_h, min_h, max_w))
    ELSE IF img_w > max_w \/ img_h > max_h
    THEN [same |-> FALSE] @@
         (IF stretch THEN [w |-> max_w, h |-> max_h]
          ELSE IF max_w >= max_h
          THEN HeightFirst(img_w, img_h, max_w, max_h)
          ELSE WidthFirst(img_w, img_h, max_h, max_w))
    ELSE [same |-> TRUE, w |-> img_w, h |-> img_h]

\* the asserts, then the target, for normalised bounds
Checked(img_w, img_h, min_w, min_h, max_w, max_h, stretch) ==
    IF ~(min_w <= max_w /\ min_h <= max_h)
    THEN [raises |-> "AssertionError", same |-> FALSE, w |-> 0, h |-> 0]
    ELSE [raises |-> None] @@
         Target(img_w, img_h, min_w, min_h, max_w, max_h, stretch)

\* lines 112-157 for the arguments a: [raises, same, w, h]
Resolve(img, a) ==
    Checked(img.w, img.h,
            NegativeToPx(a.min_w), NegativeToPx(a.min_h),
            NegativeToPx(OrDefault(a.max_w, img.w)),
            NegativeToPx(OrDefault(a.max_h, img.h)), a.stretch)

\* PIL's Image.resize refuses a size with a side below 1
PilResizeFails(w, h) == w < 1 \/ h < 1

\* self._resized_cache.get((w, h)): the instances stored under the key
CacheGet_AlwaysMiss(cache, w, h) == {}

CacheGet(cache, w, h) == {e.inst : e \in {c \in cache : c.key = <<w, h>>}}

\* self._resized_cache[(w, h)] = image
CachePut(cache, w, h, inst) ==
    {c \in cache : c.key # <<w, h>>} \cup {[key |-> <<w, h>>, inst |-> inst]}

MaxImages == 3      \* Image instances alive at once
MaxImg == 3         \* largest source image side, px
MaxPx == 3          \* largest pixel bound handed to resize

\* Image(source): a fresh instance of the given size
NewImage(w, h, id) == [w |-> w, h |-> h, id |-> id, cache |-> {}]

Returned(self, r, outcome, ret) ==
    <<[self |-> self, outcome |-> outcome, w |-> r.w, h |-> r.h,
       ret |-> ret]>>

notImg == <<axis, axcall, grid, term, cpr, prevcap, contents, show, rendered,
            tty, gc, sc>>

\* self.resize(**rq) that ends in one of the asserts
ResizeAssert ==
    /\ \E self \in DOMAIN images :
          \E r \in {Resolve(images[self], rq)} :
          /\ r.raises = "AssertionError"
          /\ rcall' = Returned(self, r, "AssertionError", 0)
    /\ UNCHANGED <<images, used_ids, rq, scaled>>
    /\ UNCHANGED notImg

\* self.resize(**rq) with nothing to do: return self
ResizeSame ==
    /\ \E self \in DOMAIN images :
          \E r \in {Resolve(images[self], rq)} :
          /\ r.raises = None /\ r.same
          /\ rcall' = Returned(self, r, "self", self)
    /\ UNCHANGED <<images, used_ids, rq, scaled>>
    /\ UNCHANGED notImg

\* self.resize(**rq) answered from the cache
ResizeCached ==
    /\ \E self \in DOMAIN images :
          \E r \in {Resolve(images[self], rq)} :
          /\ r.raises = None /\ ~r.same
          /\ \E inst \in CacheGet(images[self].cache, r.w, r.h) :
                rcall' = Returned(self, r, "cached", inst)
    /\ UNCHANGED <<images, used_ids, rq, scaled>>
    /\ UNCHANGED notImg

\* self.resize(**rq) whose PIL resize raises
ResizeFails ==
    /\ \E self \in DOMAIN images :
          \E r \in {Resolve(images[self], rq)} :
          /\ r.raises = None /\ ~r.same
          /\ CacheGet(images[self].cache, r.w, r.h) = {}
          /\ PilResizeFails(r.w, r.h)
          /\ rcall' = Returned(self, r, "ValueError", 0)
    /\ UNCHANGED <<images, used_ids, rq, scaled>>
    /\ UNCHANGED notImg

\* self.resize(**rq) that scales, builds the Image and stores it
ResizeNew ==
    /\ Len(images) < MaxImages
    /\ \E self \in DOMAIN images :
          \E r \in {Resolve(images[self], rq)}, inst \in {Len(images) + 1} :
          /\ r.raises = None /\ ~r.same
          /\ CacheGet(images[self].cache, r.w, r.h) = {}
          /\ ~PilResizeFails(r.w, r.h)
          /\ \E id \in GetIdChoices(used_ids) :
                /\ images' = Append(
                      [images EXCEPT
                          ![self].cache = CachePut(@, r.w, r.h, inst)],
                      NewImage(r.w, r.h, id))
                /\ used_ids' = GetIdUsed(used_ids, id)
          /\ scaled' = Append(scaled, [src |-> self, w |-> r.w, h |-> r.h,
                                       inst |-> inst])
          /\ rcall' = Returned(self, r, "new", inst)
    /\ UNCHANGED rq
    /\ UNCHANGED notImg

(***************************************************************************)
(* One request against a source image and the images made from it          *)
(***************************************************************************)
ResizeArgs ==
    [min_w : {-1} \cup 1..MaxPx, min_h : {-1} \cup 1..MaxPx,
     max_w : 0..MaxPx, max_h : 0..MaxPx, stretch : BOOLEAN]

InitImages ==
    /\ \E w \in 1..MaxImg, h \in 1..MaxImg, id \in GetIdChoices({}) :
          /\ images = <<NewImage(w, h, id)>>
          /\ used_ids = GetIdUsed({}, id)
    /\ rcall = <<>>
    /\ scaled = <<>>
    /\ AxisUnused /\ GridUnused /\ ShowUnused /\ TtyUnused

InitFit == InitImages /\ rq \in ResizeArgs

NextFit ==
    \/ ResizeAssert
    \/ ResizeSame
    \/ ResizeCached
    \/ ResizeFails
    \/ ResizeNew

SpecFit == InitFit /\ [][NextFit]_vars

(***************************************************************************)
(* Any sequence of requests, as Grid and thumbnail make them               *)
(***************************************************************************)
\* Grid._get_resized_image: resize(1, 1, cell width, cell height)
\* thumbnail: resize(size, size, size, size, stretch)
\* resize(min_w=n, min_h=n): no maximum given
CallerArgs ==
    {[min_w |-> 1, min_h |-> 1, max_w |-> w, max_h |-> h, stretch |-> FALSE]
        : w \in 1..MaxPx, h \in 1..MaxPx}
    \cup {[min_w |-> n, min_h |-> n, max_w |-> n, max_h |-> n, stretch |-> s]
        : n \in 1..MaxPx, s \in BOOLEAN}
    \cup {[DefaultArgs EXCEPT !.min_w = n, !.min_h = n] : n \in 1..MaxPx}

\* the caller turns to its next request
NextRequest ==
    /\ rcall # <<>>
    /\ rq' \in CallerArgs \ {rq}
    /\ rcall' = <<>>
    /\ UNCHANGED <<images, used_ids, scaled>>
    /\ UNCHANGED notImg

\* a source as wide as can be, square or one pixel flatter
InitResize ==
    /\ InitImages
    /\ images[1].w = MaxImg /\ images[1].h >= MaxImg - 1
    /\ rq \in CallerArgs

NextResize ==
    \/ ResizeAssert
    \/ ResizeSame
    \/ ResizeCached
    \/ ResizeFails
    \/ ResizeNew
    \/ NextRequest

SpecResize == InitResize /\ [][NextResize]_vars

\* the Image a finished resize call handed back
ReturnedImage == images[rcall[1].ret]

\* C2: resize(1, 1, W, H) without stretch on a w x h image (all >= 1)
\* returns an image of width 1..W and height 1..H.
C2_FitsWithinMax ==
    (/\ rcall # <<>>
     /\ rq.min_w = 1 /\ rq.min_h = 1
     /\ rq.max_w >= 1 /\ rq.max_h >= 1
     /\ ~rq.stretch)
    => /\ rcall[1].outcome \in {"self", "cached", "new"}
       /\ ReturnedImage.w \in 1..rq.max_w
       /\ ReturnedImage.h \in 1..rq.max_h

\* C3: per source image and target size at most one Image is ever scaled
\* (and given an id), it stays in the source's cache under that size for
\* good, and every call resolving to that size returns that very instance.
C3_CacheIdentity ==
    /\ \A i, j \in DOMAIN scaled :
          (scaled[i].src = scaled[j].src /\ scaled[i].w = scaled[j].w
           /\ scaled[i].h = scaled[j].h) => i = j
    /\ \A i \in DOMAIN scaled :
          CacheGet(images[scaled[i].src].cache, scaled[i].w, scaled[i].h)
             = {scaled[i].inst}
    /\ (rcall # <<>> /\ rcall[1].outcome \in {"cached", "new"}) =>
          \E i \in DOMAIN scaled :
             /\ scaled[i].src = rcall[1].self
             /\ scaled[i].w = rcall[1].w /\ scaled[i].h = rcall[1].h
             /\ scaled[i].inst = rcall[1].ret

C3_Witness ==
    /\ rcall # <<>>
    /\ rcall[1].outcome = "cached"
    /\ Len(scaled) = 2
    /\ scaled[1].src = rcall[1].self
    /\ scaled[2].src = rcall[1].self
    /\ rcall[1].ret = scaled[1].inst

\* C14: every Image gets an id of MIN_ID..MAX_ID that no Image alive at
\* that moment has (the source and the images in its cache stay alive), so
\* the ids of the Images in existence are pairwise different.
C14_FreshId ==
    /\ \A i \in DOMAIN images : images[i].id \in MIN_ID..MAX_ID
    /\ \A i, j \in DOMAIN images : images[i].id = images[j].id => i = j

\* the image a finished resize call was made on, and its normalised bounds
Resized == images[rcall[1].self]

BoundMinW == NegativeToPx(rq.min_w)
BoundMinH == NegativeToPx(rq.min_h)
BoundMaxW == NegativeToPx(OrDefault(rq.max_w, Resized.w))
BoundMaxH == NegativeToPx(OrDefault(rq.max_h, Resized.h))

BoundsOrdered == BoundMinW <= BoundMaxW /\ BoundMinH <= BoundMaxH

\* the two cases of the spec, for a finished call
UpscaleCase ==
    /\ Resized.w < BoundMinW \/ Resized.h < BoundMinH
    /\ Resized.w < BoundMaxW /\ Resized.h < BoundMaxH

DownscaleCase ==
    /\ ~UpscaleCase
    /\ Resized.w > BoundMaxW \/ Resized.h > BoundMaxH

\* h is what the aspect ratio of a img_w x img_h image gives for the width
\* w, to the pixel
FollowsRatio(img_w, img_h, w, h) ==
    /\ h * img_w <= w * img_h
    /\ w * img_h < (h + 1) * img_w

\* C16: a resize without stretch of an image that exceeds a maximum returns
\* an image whose driving axis (the one with the larger size/maximum ratio)
\* is exactly at its maximum, the other axis following the aspect ratio.
C16_DownscaleDriver ==
    (/\ rcall # <<>> /\ BoundsOrdered /\ ~rq.stretch
     /\ DownscaleCase)
    => /\ rcall[1].outcome \in {"cached", "new"}
       /\ IF Resized.w * BoundMaxH >= Resized.h * BoundMaxW
          THEN /\ ReturnedImage.w = BoundMaxW
               /\ FollowsRatio(Resized.w, Resized.h,
                               ReturnedImage.w, ReturnedImage.h)
          ELSE /\ ReturnedImage.h = BoundMaxH
               /\ FollowsRatio(Resized.h, Resized.w,
                               ReturnedImage.h, ReturnedImage.w)

\* the finished call was made on an Image that an earlier call with the
\* same arguments had scaled
OnScaled == \E i \in DOMAIN scaled : scaled[i].inst = rcall[1].self

\* C17: resize with the arguments that made an Image r, called on r, returns
\* r itself: nothing is scaled and no Image or id is made.
C17_IdempotentByReference ==
    (rcall # <<>> /\ OnScaled /\ BoundsOrdered)
    => /\ rcall[1].outcome = "self"
       /\ rcall[1].ret = rcall[1].self

\* C18: a resize without stretch of an image below a minimum and within
\* both maxima returns an image whose driving axis (the one with the larger
\* minimum/size ratio) is at least at its minimum, whose other axis is at
\* most at its maximum, and which is on no axis smaller than the source.
C18_UpscaleDriver ==
    (/\ rcall # <<>> /\ BoundsOrdered /\ ~rq.stretch
     /\ UpscaleCase)
    => /\ rcall[1].outcome \in {"cached", "new"}
       /\ BoundMinW * Resized.h > BoundMinH * Resized.w =>
             /\ ReturnedImage.w >= BoundMinW
             /\ ReturnedImage.h <= BoundMaxH
       /\ BoundMinW * Resized.h < BoundMinH * Resized.w =>
             /\ ReturnedImage.h >= BoundMinH
             /\ ReturnedImage.w <= BoundMaxW
       /\ BoundMinW * Resized.h = BoundMinH * Resized.w =>
             \/ ReturnedImage.w >= BoundMinW
             \/ ReturnedImage.h >= BoundMinH
       /\ ReturnedImage.w >= Resized.w
       /\ ReturnedImage.h >= Resized.h

(***************************************************************************)
(* terminal.py: PixTerminal.get_code                                       *)
(***************************************************************************)
MaxControls == 3    \* most controls given to one get_code call
MaxOffset == 2      \* largest offset_x / offset_y / crop value, px
MaxPayload == 3     \* longest payload, in characters

\* data.ESC, the escape character, as one token of the message
ESC == "ESC"

\* data.IMAGE_CONTROLS[k][0]: the protocol key of a logical control name
ControlKey(k) ==
    CASE k = "action" -> "a"
      [] k = "medium" -> "t"
      [] k = "format" -> "f"
      [] k = "id" -> "i"
      [] k = "z_index" -> "z"
      [] k = "offset_x" -> "X"
      [] k = "offset_y" -> "Y"
      [] k = "crop_w" -> "w"
      [] k = "crop_h" -> "h"
      [] k = "del_data_target" -> "d"

\* data.IMAGE_CONTROLS[k][1][v]: the protocol value of an enumerated one
ControlValue(k, v) ==
    CASE k = "action" /\ v = "transmit" -> "t"
      [] k = "action" /\ v = "transmit+display" -> "T"
      [] k = "action" /\ v = "query" -> "q"
      [] k = "action" /\ v = "delete" -> "d"
      [] k = "medium" /\ v = "direct" -> "d"
      [] k = "medium" /\ v = "file" -> "f"
      [] k = "medium" /\ v = "tempfile" -> "t"
      [] k = "format" /\ v = "rgb" -> "24"
      [] k = "format" /\ v = "rgba" -> "32"
      [] k = "format" /\ v = "png" -> "100"
      [] k = "del_data_target" /\ v = "id" -> "i"

\* a control of the call: a number, or a name of an enumeration
Num(k, n) == [k |-> k, enum |-> FALSE, s |-> "", n |-> n]
Enum(k, s) == [k |-> k, enum |-> TRUE, s |-> s, n |-> 0]

RECURSIVE StrNat(_)
StrNat(n) ==
    LET Digits == <<"0", "1", "2", "3", "4", "5", "6", "7", "8", "9">>
    IN  IF n < 10 THEN Digits[n + 1]
        ELSE StrNat(n \div 10) \o Digits[(n % 10) + 1]

\* f"{v}" for an int
Str(n) == IF n < 0 THEN "-" \o StrNat(-n) ELSE StrNat(n)

\* "id" in controls, controls["id"]
HasControl(controls, k) == \E i \in DOMAIN controls : controls[i].k = k

ControlAt(controls, k) == CHOOSE i \in DOMAIN controls : controls[i].k = k

\* assert data.MIN_ID <= controls["id"] <= data.MAX_ID
IdAsserted(controls) ==
    HasControl(controls, "id") =>
        LET id == controls[ControlAt(controls, "id")].n
        IN  MIN_ID <= id /\ id <= MAX_ID

\* controls["offset_x"] = controls.get("offset_x", 0) + 1: a key the dict
\* has keeps its place, a new key goes last
OffsetXPlusOne_Unchanged(controls) ==
    IF HasControl(controls, "offset_x") THEN controls
    ELSE Append(controls, Num("offset_x", 0))

OffsetXPlusOne(controls) ==
    IF HasControl(controls, "offset_x")
    THEN [controls EXCEPT ![ControlAt(controls, "offset_x")].n = @ + 1]
    ELSE Append(controls, Num("offset_x", 0 + 1))

\* one item of real_keys, formatted: f"{k}={v}"
PairTokens(c) ==
    <<ControlKey(c.k), "=",
      IF c.enum THEN ControlValue(c.k, c.s) ELSE Str(c.n)>>

\* ",".join(...) over the items in the order of the dict
RECURSIVE JoinPairs(_)
JoinPairs(controls) ==
    IF controls = <<>> THEN <<>>
    ELSE IF Len(controls) = 1 THEN PairTokens(controls[1])
    ELSE PairTokens(Head(controls)) \o <<",">> \o JoinPairs(Tail(controls))

\* the base64 alphabet, value 0 first
B64Alphabet ==
    <<"A", "B", "C", "D", "E", "F", "G", "H", "I", "J", "K", "L", "M",
      "N", "O", "P", "Q", "R", "S", "T", "U", "V", "W", "X", "Y", "Z",
      "a", "b", "c", "d", "e", "f", "g", "h", "i", "j", "k", "l", "m",
      "n", "o", "p", "q", "r", "s", "t", "u", "v", "w", "x", "y", "z",
      "0", "1", "2", "3", "4", "5", "6", "7", "8", "9", "+", "/">>

B64Char(v) == B64Alphabet[v + 1]

\* base64.b64encode: three bytes make four characters, the last group is
\* padded with "="
RECURSIVE B64Encode(_)
B64Encode(bytes) ==
    IF bytes = <<>> THEN <<>>
    ELSE IF Len(bytes) = 1
    THEN <<B64Char(bytes[1] \div 4), B64Char((bytes[1] % 4) * 16),
           "=", "=">>
    ELSE IF Len(bytes) = 2
    THEN <<B64Char(bytes[1] \div 4),
           B64Char((bytes[1] % 4) * 16 + bytes[2] \div 16),
           B64Char((bytes[2] % 16) * 4), "=">>
    ELSE <<B64Char(bytes[1] \div 4),
           B64Char((bytes[1] % 4) * 16 + bytes[2] \div 16),
           B64Char((bytes[2] % 16) * 4 + bytes[3] \div 64),
           B64Char(bytes[3] % 64)>>
         \o B64Encode(SubSeq(bytes, 4, Len(bytes)))

\* if payload: payload = str(base64.b64encode(bytes(payload, "utf-8")), ...)
\* (a payload of ASCII characters, given by their codes)
EncodePayload(payload) ==
    IF payload # <<>> THEN B64Encode(payload) ELSE payload

\* code = f"{self.esc}_G{keys_str};{payload}{self.esc}\\"
GetCode(payload, controls) ==
    <<ESC, "_G">> \o JoinPairs(OffsetXPlusOne(controls)) \o <<";">>
    \o EncodePayload(payload) \o <<ESC, "\\">>

(***************************************************************************)
(* get_code on its own: one call per payload and controls                  *)
(***************************************************************************)
\* payloads over two characters, by their ASCII codes: "M" and "n"
Payloads == SeqsUpTo({77, 110}, MaxPayload)

\* the controls a call can give, each name at most once
ControlPool ==
    {Enum("action", a) : a \in {"transmit+display", "query"}}
    \cup {Num("id", i) : i \in {MIN_ID - 1, MIN_ID, MAX_ID + 1}}
    \cup {Num("offset_x", n) : n \in 0..MaxOffset}
    \cup {Num("offset_y", n) : n \in 0..MaxOffset}
    \cup {Num("z_index", -1)}

ControlSeqs ==
    {cs \in SeqsUpTo(ControlPool, MaxControls) :
        \A i, j \in DOMAIN cs : cs[i].k = cs[j].k => i = j}

notGc == <<axis, axcall, grid, term, cpr, prevcap, contents, show, rendered,
           images, used_ids, rq, rcall, scaled, tty, sc>>

\* get_code(payload, **controls) that ends in the assert on the id
get_code_assert ==
    /\ gc.pc = "call"
    /\ ~IdAsserted(gc.controls)
    /\ gc' = [gc EXCEPT !.pc = "raised", !.exc = "AssertionError"]
    /\ UNCHANGED notGc

\* get_code(payload, **controls) that returns the message
get_code_return ==
    /\ gc.pc = "call"
    /\ IdAsserted(gc.controls)
    /\ gc' = [gc EXCEPT !.pc = "returned",
                        !.code = GetCode(gc.payload, gc.controls)]
    /\ UNCHANGED notGc

InitCode ==
    /\ \E payload \in Payloads, controls \in ControlSeqs :
          gc = [GcIdle EXCEPT !.pc = "call", !.payload = payload,
                              !.controls = controls]
    /\ tty = TtyIdle /\ sc = ScIdle
    /\ AxisUnused /\ GridUnused /\ ShowUnused /\ ImgUnused

NextCode ==
    \/ get_code_assert
    \/ get_code_return

SpecCode == InitCode /\ [][NextCode]_vars

\* the value of a base64 character, and the bytes of a padded base64 text
B64Value(ch) == CHOOSE v \in 0..63 : B64Alphabet[v + 1] = ch

RECURSIVE B64Decode(_)
B64Decode(text) ==
    IF Len(text) < 4 THEN <<>>
    ELSE LET v1 == B64Value(text[1])
             v2 == B64Value(text[2])
             b1 == v1 * 4 + v2 \div 16
         IN  IF text[3] = "=" THEN <<b1>>
             ELSE LET v3 == B64Value(text[3])
                      b2 == (v2 % 16) * 16 + v3 \div 4
                  IN  IF text[4] = "=" THEN <<b1, b2>>
                      ELSE <<b1, b2, (v3 % 4) * 64 + B64Value(text[4])>>
                           \o B64Decode(SubSeq(text, 5, Len(text)))

\* C15: the message get_code returns is ESC _G, one key=value pair per
\* control in the order of the controls (offset_x as the given value plus 1,
\* as 1 and last when not given; offset_y and the others as given),
\* separated by ",", then ";", then the base64 text of the payload (nothing
\* for an empty payload), then ESC \.
C15_Encoding ==
    gc.pc = "returned" =>
        LET c == gc.code
            ctl == gc.controls
            given == HasControl(ctl, "offset_x")
            n == Len(ctl) + (IF given THEN 0 ELSE 1)
            seg == SubSeq(c, 4 * n + 3, Len(c) - 2)
        IN  /\ Len(c) >= 4 * n + 4
            /\ c[1] = ESC /\ c[2] = "_G"
            /\ \A i \in DOMAIN ctl :
                  /\ c[4 * i - 1] = ControlKey(ctl[i].k)
                  /\ c[4 * i] = "="
                  /\ c[4 * i + 1] =
                        IF ctl[i].k = "offset_x" THEN Str(ctl[i].n + 1)
                        ELSE IF ctl[i].enum
                        THEN ControlValue(ctl[i].k, ctl[i].s)
                        ELSE Str(ctl[i].n)
            /\ ~given =>
                  /\ c[4 * n - 1] = "X" /\ c[4 * n] = "="
                  /\ c[4 * n + 1] = "1"
            /\ \A i \in 1..n : c[4 * i + 2] = IF i < n THEN "," ELSE ";"
            /\ IF gc.payload = <<>> THEN seg = <<>>
               ELSE /\ Len(seg) = 4 * CeilDiv(Len(gc.payload), 3)
                    /\ B64Decode(seg) = gc.payload
            /\ c[Len(c) - 1] = ESC /\ c[Len(c)] = "\\"

C15_Witness ==
    /\ gc.pc = "returned"
    /\ gc.controls = <<Enum("action", "transmit+display"), Num("id", MIN_ID),
                       Num("offset_x", 0)>>
    /\ gc.payload = <<77, 110>>
    /\ gc.code = <<ESC, "_G", "a", "=", "T", ",", "i", "=", "1", ",",
                   "X", "=", "1", ";", "T", "W", "4", "=", ESC, "\\">>

(***************************************************************************)
(* terminal.py: PixTerminal.run_code, alarm_handler                        *)
(***************************************************************************)
MaxReply == 4       \* longest reply read from stdin, in characters

\* data.ACTIONS_WITH_ANSWER
ACTIONS_WITH_ANSWER == {"transmit", "transmit+display", "query"}

Actions == ACTIONS_WITH_ANSWER \cup {"delete"}

\* what stdin can deliver; "\\" is the terminator
Chars == {";", "O", "K", "\\"}

\* timeout arguments: the default of the signature and 0 (no alarm)
DefaultTimeout == 3
Timeouts == {0, DefaultTimeout}

\* ";OK" in answer
HasOK(answer) ==
    \E i \in 1..(Len(answer) - 2) :
       answer[i] = ";" /\ answer[i + 1] = "O" /\ answer[i + 2] = "K"

\* an id control: <<>> when the call gives none, else <<id>>
IdControls == {<<>>} \cup {<<id>> : id \in (MIN_ID - 1)..(MAX_ID + 1)}

\* get_code's assert on the id control
IdAccepted(idc) == idc = <<>> \/ (MIN_ID <= idc[1] /\ idc[1] <= MAX_ID)

notTty == <<axis, axcall, grid, term, cpr, prevcap, contents, show, rendered,
            images, used_ids, rq, rcall, scaled, gc, sc>>

InRunCode == tty.pc \in {"read", "cancel"}

\* signal.alarm(0) after the read loop
CancelAlarm_Forgotten(t) == t

CancelAlarm(t) == [t EXCEPT !.alarm = FALSE]

\* the controls of the calls made here: an action, with or without an id
Controls(action, idc) ==
    <<Enum("action", action)>> \o [i \in DOMAIN idc |-> Num("id", idc[i])]

\* a new run_code call: nothing is left of the call before it
Called(t, action, idc) ==
    [t EXCEPT !.action = action, !.id = idc, !.chars = <<>>, !.exc = None,
              !.timeout = 0, !.out = <<>>, !.from_code = <<>>,
              !.answer = <<>>]

\* print(code)
Printed(t, code) == [t EXCEPT !.out = code]

\* signal.alarm(timeout): a timeout of 0 schedules no alarm
SignalAlarm_Never(t, timeout) == [t EXCEPT !.timeout = timeout]

SignalAlarm(t, timeout) ==
    [t EXCEPT !.alarm = (timeout # 0), !.timeout = timeout]

\* raise KittyAnswerError(code, answer)
AnswerError(t) ==
    [t EXCEPT !.pc = "raised", !.exc = "KittyAnswerError",
              !.from_code = t.out, !.answer = t.chars]

\* run_code(action=..., id=...) whose get_code assert fails
run_code_bad_id ==
    /\ ~InRunCode
    /\ \E action \in Actions, id \in {c \in IdControls : ~IdAccepted(c)} :
          tty' = [Called(tty, action, id) EXCEPT
                     !.pc = "raised", !.exc = "AssertionError"]
    /\ UNCHANGED notTty

\* run_code for an action that has no answer: print the code, return
run_code_no_answer ==
    /\ ~InRunCode
    /\ \E action \in Actions \ ACTIONS_WITH_ANSWER,
          id \in {c \in IdControls : IdAccepted(c)} :
          tty' = [Printed(Called(tty, action, id),
                          GetCode(<<>>, Controls(action, id)))
                     EXCEPT !.pc = "returned"]
    /\ UNCHANGED notTty

\* run_code for an action with an answer: print the code, signal.alarm(timeout)
run_code_arm ==
    /\ ~InRunCode
    /\ \E action \in ACTIONS_WITH_ANSWER,
          id \in {c \in IdControls : IdAccepted(c)}, timeout \in Timeouts :
          tty' = [SignalAlarm(Printed(Called(tty, action, id),
                                      GetCode(<<>>, Controls(action, id))),
                              timeout)
                     EXCEPT !.pc = "read"]
    /\ UNCHANGED notTty

\* char = sys.stdin.read(1); chars.append(char); break on the terminator
run_code_read ==
    /\ tty.pc = "read"
    /\ Len(tty.chars) < MaxReply
    /\ \E char \in Chars :
          tty' = [tty EXCEPT !.chars = Append(@, char),
                             !.pc = IF char = "\\" THEN "cancel" ELSE "read"]
    /\ UNCHANGED notTty

\* signal.alarm(0), then the check of the answer
run_code_answer ==
    /\ tty.pc = "cancel"
    /\ tty' = IF tty.chars # <<>> /\ ~HasOK(tty.chars)
              THEN AnswerError(CancelAlarm(tty))
              ELSE [CancelAlarm(tty) EXCEPT !.pc = "returned"]
    /\ UNCHANGED notTty

\* SIGALRM is delivered: alarm_handler raises in whatever is running
alarm_handler ==
    /\ tty.alarm
    /\ tty' = [tty EXCEPT !.alarm = FALSE,
                          !.pc = IF InRunCode THEN "raised" ELSE @,
                          !.exc = IF InRunCode THEN "KittyAnswerTimeout" ELSE @,
                          !.stray = ~InRunCode]
    /\ UNCHANGED notTty

InitTerm ==
    /\ tty = TtyIdle
    /\ gc = GcIdle /\ sc = ScIdle
    /\ AxisUnused /\ GridUnused /\ ShowUnused /\ ImgUnused

NextTerm ==
    \/ run_code_bad_id
    \/ run_code_no_answer
    \/ run_code_arm
    \/ run_code_read
    \/ run_code_answer
    \/ alarm_handler

SpecTerm == InitTerm /\ [][NextTerm]_vars

\* C10: once run_code has returned or raised (success, answer error or
\* timeout) no alarm is pending, so none fires in a later operation.
C10_AlarmDisarmed ==
    /\ (tty.pc \in {"returned", "raised"} => ~tty.alarm)
    /\ ~tty.stray

C10_Witness ==
    /\ tty.pc = "raised"
    /\ tty.exc = "KittyAnswerError"
    /\ tty.action = "transmit+display"
    /\ ~tty.alarm

(***************************************************************************)
(* run_code with the timer the kernel runs: an armed alarm is delivered    *)
(***************************************************************************)
SpecTermLive == SpecTerm /\ WF_vars(alarm_handler)

\* run_code ended in alarm_handler's exception
TimedOut == tty.pc = "raised" /\ tty.exc = "KittyAnswerTimeout"

\* the terminator is among the characters read
TerminatorRead == \E i \in DOMAIN tty.chars : tty.chars[i] = "\\"

\* C11 as stated: a run_code call waiting for its reply always gets the
\* terminator or ends with KittyAnswerTimeout, whatever timeout it was given.
C11_NeverBlocks ==
    (tty.pc = "read") ~> (TerminatorRead \/ TimedOut)

\* C11, amended: a run_code call waiting for its reply under a positive
\* timeout always gets the terminator or ends with KittyAnswerTimeout, and a
\* call that ended without the terminator ended with KittyAnswerTimeout.
C11_TimesOutWhenArmed ==
    /\ (tty.pc = "read" /\ tty.timeout > 0) ~> (TerminatorRead \/ TimedOut)
    /\ [](tty.pc \in {"returned", "raised"}
          /\ tty.action \in ACTIONS_WITH_ANSWER
          /\ tty.out # <<>> /\ ~TerminatorRead
          => TimedOut)

C11_Witness ==
    /\ TimedOut
    /\ tty.action = "query"
    /\ tty.timeout = DefaultTimeout
    /\ tty.chars = <<";", "O">>

\* C12: a run_code call for an action with an answer that read the
\* terminator never ends with KittyAnswerTimeout; it returns exactly when
\* the reply contains ";OK" and otherwise raises KittyAnswerError with the
\* message it printed and the reply it read.
C12_AnswerDecides ==
    (/\ tty.pc \in {"returned", "raised"}
     /\ tty.action \in ACTIONS_WITH_ANSWER
     /\ TerminatorRead)
    => /\ ~TimedOut
       /\ (tty.pc = "returned") <=> HasOK(tty.chars)
       /\ tty.pc = "raised" =>
             /\ tty.exc = "KittyAnswerError"
             /\ tty.from_code = tty.out /\ tty.out # <<>>
             /\ tty.answer = tty.chars

(***************************************************************************)
(* grid.py: Grid._get_content, Grid._get_resized_image, Grid.show          *)
(*                                                                         *)
(* A content item is None, a text or an Image.  An Image item carries its  *)
(* pixel size and whether its file decodes when PIL first loads it (PIL    *)
(* opens lazily: resize and save load the pixels, size does not).  The     *)
(* resize cache of an item does not change what show does with it and is   *)
(* left out of the item.                                                   *)
(***************************************************************************)
MaxItems == 3       \* longest input sequence of Grid.show

NoneItem == [kind |-> "none", w |-> 0, h |-> 0, loads |-> TRUE, lines |-> 0]
TextItem(n) == [kind |-> "text", w |-> 0, h |-> 0, loads |-> TRUE, lines |-> n]
ImageItem(w, h, loads) ==
    [kind |-> "image", w |-> w, h |-> h, loads |-> loads, lines |-> 0]

ColCell(col) == Axis_getitem(grid.cols, col).cell
RowCell(row) == Axis_getitem(grid.rows, row).cell

\* the arguments of cell.resize(1, 1, self.cols[col].size.px,
\* self.rows[row].size.px)
CellArgs(col, row) ==
    [min_w |-> 1, min_h |-> 1,
     max_w |-> SizePx(ColCell(col).size),
     max_h |-> SizePx(RowCell(row).size), stretch |-> FALSE]

\* how cell.resize ends once it resolved to r: the exception it raises
\* (None: it returns) and the size of its result
ResizeOutcome(cell, r) ==
    IF r.raises # None THEN [exc |-> r.raises, w |-> 0, h |-> 0]
    ELSE IF r.same THEN [exc |-> None, w |-> r.w, h |-> r.h]
    ELSE IF ~cell.loads THEN [exc |-> "OSError", w |-> 0, h |-> 0]
    ELSE IF PilResizeFails(r.w, r.h)
    THEN [exc |-> "ValueError", w |-> 0, h |-> 0]
    ELSE [exc |-> None, w |-> r.w, h |-> r.h]

CellResize(cell, col, row) ==
    ResizeOutcome(cell, Resolve(cell, CellArgs(col, row)))

\* the try/except of _get_resized_image around the outcome r of resize:
\* [exc, none, failed, w, h, printed]; none: the method fell off its except
\* clause and returned None; failed: resize raised
Guarded(r) ==
    IF r.exc = None
    THEN [exc |-> None, none |-> FALSE, failed |-> FALSE,
          w |-> r.w, h |-> r.h, printed |-> 0]
    ELSE IF grid.raise_errors
    THEN [exc |-> r.exc, none |-> FALSE, failed |-> TRUE,
          w |-> 0, h |-> 0, printed |-> 0]
    ELSE [exc |-> None, none |-> TRUE, failed |-> TRUE,
          w |-> 0, h |-> 0,
          printed |-> IF grid.print_errors THEN 1 ELSE 0]

GetResizedImage(cell, col, row) == Guarded(CellResize(cell, col, row))

\* return (img, img.width, img.height)
ImageContent(img) ==
    [exc |-> IF img.exc # None THEN img.exc
             ELSE IF img.none THEN "AttributeError"   \* None.width
             ELSE None,
     w |-> img.w, h |-> img.h, printed |-> img.printed,
     failed |-> img.failed]

\* the text branch, for the number of lines _get_text kept
TextContent(num_lines) ==
    [exc |-> IF num_lines = 0 THEN "ValueError" ELSE None,   \* max([])
     w |-> SizeOfCells(1), h |-> SizeOfCells(num_lines),
     printed |-> 0, failed |-> FALSE]

\* _get_content: [exc, w, h, printed, failed]
GetContent(cell, col, row) ==
    IF cell.kind = "none"
    THEN [exc |-> None, w |-> 0, h |-> 0, printed |-> 0, failed |-> FALSE]
    ELSE IF cell.kind = "image"
    THEN ImageContent(GetResizedImage(cell, col, row))
    ELSE TextContent(Min(cell.lines, SizeCells(RowCell(row).size)))

\* how content.show() can end for an Image: _get_kitty_file saves the
\* pixels, run_code returns or raises
ImageShowOutcomes(cell) ==
    IF cell.kind # "image" THEN {None}
    ELSE IF ~cell.loads THEN {"OSError"}
    ELSE {None, "KittyAnswerError", "KittyAnswerTimeout"}

notShow == <<axis, axcall, grid, term, prevcap, images, used_ids, rq, rcall,
             scaled, tty, gc, sc>>

Rendering(item, c, exc) ==
    [k |-> show.k, col |-> show.col, row |-> show.row, kind |-> item.kind,
     w |-> c.w, h |-> c.h, exc |-> exc]

\* one pass of the for loop whose _get_content raises
show_content_raises ==
    /\ show.pc = "for"
    /\ show.k < Len(contents)
    /\ \E c \in {GetContent(contents[show.k + 1], show.col, show.row)} :
          /\ c.exc # None
          /\ show' = [show EXCEPT !.pc = "raised", !.exc = c.exc,
                                  !.k = @ + 1, !.failed = c.failed,
                                  !.printed = @ + c.printed]
    /\ UNCHANGED <<contents, rendered, cpr>>
    /\ UNCHANGED notShow

\* what reaches the caller of show when content.show() raised exc: neither
\* _show_content nor show has an except clause
Propagated_Policy(exc) == IF grid.raise_errors THEN exc ELSE None

Propagated(exc) == exc

\* one pass of the for loop whose _show_content raises in content.show()
show_render_raises ==
    /\ show.pc = "for"
    /\ show.k < Len(contents)
    /\ \E item \in {contents[show.k + 1]} :
       \E c \in {GetContent(item, show.col, show.row)} :
          /\ c.exc = None
          /\ \E exc \in ImageShowOutcomes(item) \ {None} :
             \E out \in {Propagated(exc)} :
                /\ rendered' = Append(rendered, Rendering(item, c, exc))
                /\ IF out # None
                   THEN /\ show' = [show EXCEPT
                                       !.pc = "raised", !.exc = out,
                                       !.k = @ + 1, !.failed = c.failed,
                                       !.printed = @ + c.printed]
                        /\ UNCHANGED cpr
                   ELSE /\ show' = [show EXCEPT
                                       !.pc = "cells_per_row", !.k = @ + 1,
                                       !.col = @ + 1, !.failed = c.failed,
                                       !.printed = @ + c.printed]
                        /\ cpr' = CprCall
    /\ UNCHANGED contents
    /\ UNCHANGED notShow

\* one pass of the for loop down to col += 1, then self.cells_per_row
show_render ==
    /\ show.pc = "for"
    /\ show.k < Len(contents)
    /\ \E item \in {contents[show.k + 1]} :
       \E c \in {GetContent(item, show.col, show.row)} :
          /\ c.exc = None
          /\ None \in ImageShowOutcomes(item)
          /\ rendered' = Append(rendered, Rendering(item, c, None))
          /\ show' = [show EXCEPT !.pc = "cells_per_row", !.k = @ + 1,
                                  !.col = @ + 1, !.failed = c.failed,
                                  !.printed = @ + c.printed]
    /\ cpr' = CprCall
    /\ UNCHANGED contents
    /\ UNCHANGED notShow

\* col >= self.cells_per_row
RowFull_OffByOne(col, cells) == col > cells

RowFull(col, cells) == col >= cells

\* col >= self.cells_per_row is false
show_same_row ==
    /\ show.pc = "cells_per_row"
    /\ cpr.pc = "done"
    /\ ~RowFull(show.col, cpr.ret)
    /\ show' = [show EXCEPT !.pc = "for"]
    /\ UNCHANGED <<contents, rendered, cpr>>
    /\ UNCHANGED notShow

\* if self.max_rows and row > self.max_rows, for the incremented row
RowsExceeded_Late(row) == Truthy(grid.max_rows) /\ row > grid.max_rows + 1

RowsExceeded(row) == Truthy(grid.max_rows) /\ row > grid.max_rows

RowNewlines(row) == SizeCells(RowCell(row).size)

\* col >= self.cells_per_row: open a new row and go on
show_new_row ==
    /\ show.pc = "cells_per_row"
    /\ cpr.pc = "done"
    /\ RowFull(show.col, cpr.ret)
    /\ ~RowsExceeded(show.row + 1)
    /\ show' = [show EXCEPT !.pc = "for", !.col = 0, !.row = @ + 1,
                            !.newlines = @ + RowNewlines(show.row)]
    /\ UNCHANGED <<contents, rendered, cpr>>
    /\ UNCHANGED notShow

\* col >= self.cells_per_row and the new row exceeds max_rows: break, then
\* the statements after the loop
show_break ==
    /\ show.pc = "cells_per_row"
    /\ cpr.pc = "done"
    /\ RowFull(show.col, cpr.ret)
    /\ RowsExceeded(show.row + 1)
    /\ show' = [show EXCEPT !.pc = "returned", !.col = 0, !.row = @ + 1,
                            !.broke = TRUE,
                            !.newlines = @ + RowNewlines(show.row)
                                           + RowNewlines(show.row + 1)]
    /\ UNCHANGED <<contents, rendered, cpr>>
    /\ UNCHANGED notShow

\* contents is exhausted: the statements after the loop
show_return ==
    /\ show.pc = "for"
    /\ show.k = Len(contents)
    /\ show' = [show EXCEPT !.pc = "returned",
                            !.newlines = @ + RowNewlines(show.row)]
    /\ UNCHANGED <<contents, rendered, cpr>>
    /\ UNCHANGED notShow

(***************************************************************************)
(* Grid.show over every small grid and input sequence                      *)
(***************************************************************************)
\* an Image larger than every cell of the model
BigSide == SizeOfCells(MaxCellSize) + 1

ItemSet ==
    {NoneItem, TextItem(1), ImageItem(1, 1, TRUE),
     ImageItem(BigSide, BigSide, TRUE), ImageItem(BigSide, BigSide, FALSE),
     ImageItem(1, BigSide, TRUE)}

OneCell(n) == StaticEntry(Cell(SizeOfCells(n), "center"))

ShowCols == {[data |-> <<OneCell(1)>>, wrap_around |-> FALSE],
             [data |-> <<OneCell(2), OneCell(1)>>, wrap_around |-> TRUE]}

ShowRows == {[data |-> <<OneCell(1)>>, wrap_around |-> FALSE],
             [data |-> <<OneCell(2), OneCell(1)>>, wrap_around |-> FALSE]}

ShowGrids ==
    [cols : ShowCols, rows : ShowRows,
     max_cols : 0..2, max_rows : 0..1,
     force_even : BOOLEAN, force_odd : {FALSE},
     raise_errors : BOOLEAN, print_errors : BOOLEAN]

Init ==
    /\ grid \in ShowGrids
    /\ term = DefaultTerm
    /\ contents \in SeqsUpTo(ItemSet, MaxItems)
    /\ show = [ShowIdle EXCEPT !.pc = "for"]
    /\ rendered = <<>>
    /\ cpr = CprIdle
    /\ prevcap = <<>>
    /\ AxisUnused /\ ImgUnused /\ TtyUnused

Next ==
    \/ show_content_raises
    \/ show_render_raises
    \/ show_render
    \/ cells_per_row_max_cols
    \/ cells_per_row_fit
    \/ cells_per_row_loop
    \/ cells_per_row_break
    \/ cells_per_row_return
    \/ show_same_row
    \/ show_new_row
    \/ show_break
    \/ show_return

Spec == Init /\ [][Next]_vars

\* C1: an Image item whose resize fails under raise_errors = False becomes
\* an empty cell and show goes on; the failure never ends show with an
\* exception.
C1_ResizeFailureBlank ==
    (show.failed /\ ~grid.raise_errors) => show.pc # "raised"

\* C8: with max_cols = c, no parity forcing and no max_rows, the k-th item
\* (from 0) is rendered at col k mod c of row k div c.
C8_RowMajor ==
    (/\ grid.max_cols >= 1
     /\ ~grid.force_even /\ ~grid.force_odd
     /\ ~Truthy(grid.max_rows))
    => \A i \in DOMAIN rendered :
          /\ rendered[i].k = i - 1
          /\ rendered[i].col = rendered[i].k % grid.max_cols
          /\ rendered[i].row = rendered[i].k \div grid.max_cols

C8_Witness ==
    /\ grid.max_cols = 2
    /\ ~grid.force_even /\ ~grid.force_odd /\ ~Truthy(grid.max_rows)
    /\ show.pc = "returned"
    /\ Len(rendered) = 3
    /\ \A i \in 1..3 : rendered[i].kind = "text"
    /\ rendered[2].row = 0 /\ rendered[2].col = 1
    /\ rendered[3].row = 1 /\ rendered[3].col = 0

\* C9: under max_rows, as soon as the row index exceeds max_rows show is
\* over: it has returned without an exception, by break, and the items not
\* yet taken stay unresolved and unrendered.
C9_StopsAtMaxRows ==
    (Truthy(grid.max_rows) /\ show.row > grid.max_rows) =>
        /\ show.pc = "returned"
        /\ show.broke
        /\ show.exc = None
        /\ Len(rendered) = show.k
        /\ show.row = grid.max_rows + 1

C9_Witness ==
    /\ Truthy(grid.max_rows)
    /\ show.row > grid.max_rows
    /\ show.pc = "returned"
    /\ show.k < Len(contents)

\* the items whose content.show() ended in a protocol failure
ProtocolFailures ==
    {i \in DOMAIN rendered :
        rendered[i].exc \in {"KittyAnswerError", "KittyAnswerTimeout"}}

\* C13: a KittyAnswerError or KittyAnswerTimeout raised while an image item
\* is shown ends Grid.show with that exception, whatever raise_errors and
\* print_errors are, and no item is resolved or rendered after it.
C13_ProtocolErrorPropagates ==
    \A i \in ProtocolFailures :
        /\ show.pc = "raised"
        /\ show.exc = rendered[i].exc
        /\ i = Len(rendered)
        /\ show.k = rendered[i].k + 1

C13_Witness ==
    /\ ~grid.raise_errors /\ ~grid.print_errors
    /\ Len(rendered) = 2
    /\ 2 \in ProtocolFailures
    /\ rendered[2].exc = "KittyAnswerTimeout"
    /\ show.pc = "raised"
    /\ show.k < Len(contents)

\* C20: with max_rows = M set, no item is rendered at a row index of M or
\* more: show renders at most M rows.
C20_MaxRowsCap ==
    Truthy(grid.max_rows) =>
        \A i \in DOMAIN rendered : rendered[i].row < grid.max_rows

\* the rows that received at least one item
RowsWithItems == {rendered[i].row : i \in DOMAIN rendered}

\* the heights, in cells, of the rows of a set, added up
RECURSIVE HeightOfRows(_)
HeightOfRows(rows) ==
    IF rows = {} THEN 0
    ELSE LET r == CHOOSE x \in rows : TRUE
         IN  RowNewlines(r) + HeightOfRows(rows \ {r})

\* C21: when show has returned, without max_rows, the newlines that opened
\* rows and the final flush add up to the heights of the rows that received
\* at least one item: no extra empty row is flushed.
C21_NoExtraRow ==
    (show.pc = "returned" /\ ~Truthy(grid.max_rows)) =>
        show.newlines = HeightOfRows(RowsWithItems)

(***************************************************************************)
(* grid.py: Grid._show_content, Grid._get_align                            *)
(***************************************************************************)
MaxRowCells == 3    \* tallest row and tallest content, in cells

\* _get_align(cell, child_size): the inner offset, px
GetAlign_HalfCell(align, cell_size, child_size) ==
    CASE align = "left" -> 0
      [] align = "center" -> FloorDiv(cell_size, 2)
      [] align = "right" -> cell_size - child_size

GetAlign(align, cell_size, child_size) ==
    CASE align = "left" -> 0
      [] align = "center" -> FloorDiv(cell_size - child_size, 2)
      [] align = "right" -> cell_size - child_size

\* "\n" * n prints nothing for a negative n
Repeated(n) == Max(n, 0)

\* the vertical work of _show_content for a row and a content height:
\* inner_y.cells, height.cells, the count handed to the last print_esc, and
\* the newlines printed above and below the content
ShowContent(row, height) ==
    LET inner_y == GetAlign(row.align, row.size, height)
        rest == SizeCells(row.size) - SizeCells(height) - SizeCells(inner_y)
    IN  [inner_y |-> SizeCells(inner_y), height |-> SizeCells(height),
         rest |-> rest, above |-> Repeated(SizeCells(inner_y)),
         below |-> Repeated(rest)]

notSc == <<axis, axcall, grid, term, cpr, prevcap, contents, show, rendered,
           images, used_ids, rq, rcall, scaled, tty, gc>>

\* _show_content(content, width, height, col, row) for content that shows
\* without an exception
show_content ==
    /\ sc.pc = "call"
    /\ \E r \in {ShowContent(sc.row, sc.height)} :
          sc' = [sc EXCEPT !.pc = "done", !.inner_y = r.inner_y,
                           !.cells = r.height, !.rest = r.rest,
                           !.above = r.above, !.below = r.below]
    /\ UNCHANGED notSc

\* any row and any content height, taller than the row included
InitCell ==
    /\ \E size \in 0..SizeOfCells(MaxRowCells), align \in Aligns,
          height \in 0..SizeOfCells(MaxRowCells) :
          sc = [ScIdle EXCEPT !.pc = "call", !.row = Cell(size, align),
                              !.height = height]
    /\ tty = TtyIdle /\ gc = GcIdle
    /\ AxisUnused /\ GridUnused /\ ShowUnused /\ ImgUnused

NextCell == show_content

SpecCell == InitCell /\ [][NextCell]_vars

====
